---- MODULE Spec2Model ----
(***************************************************************************)
(* Bet tracker: the settlement engine (referee.py settleBet, bet_tracker.py *)
(* settle_bet, find_matching_game, auto_settle_bets) and the handlers of    *)
(* bet_tracker.py main() that change the bet list.                          *)
(*                                                                          *)
(* Representation                                                           *)
(*   text      a sequence of one-character strings, <<"a"," ","b">>         *)
(*   None      the empty sequence <<>>; a present value v is <<v>>          *)
(*   money     an integer number of cents (stake, profit, payout)           *)
(*   stake*1.1 an integer number of thousandths (11 * cents)                *)
(*   lines     an integer number of half points (spread, total)             *)
(*   scores    a record [k, v]: k = "num" (a number v), "str" (the text of  *)
(*             the number v), "null" (None), "absent" (no such key)         *)
(***************************************************************************)
EXTENDS Integers, Sequences, FiniteSets, TLC

VARIABLES
    bets,       \* st.session_state.bets: the session's bet list
    store,      \* the persisted bet list (bets_data.json / the bets table)
    now,        \* the wall clock read by datetime.now()
    last,       \* the handler that ran last and the exception that escaped it, if any
    other,      \* the bet list of a second session of the page, open at the same time
    arg_bet,    \* resolve harness: the wager passed to settle_bet
    arg_gs,     \* resolve harness: the score record passed to settle_bet
    out1,       \* resolve harness: what the first call returned or raised
    out2,       \* resolve harness: what the second call, same inputs, returned or raised
    arg_scores, \* match harness: the score records passed to find_matching_game
    out_m       \* match harness: what find_matching_game returned or raised

vars == <<bets, store, now, last, other, arg_bet, arg_gs, out1, out2, arg_scores, out_m>>

----------------------------------------------------------------------------
(* Bounds of the model *)

MaxClock == 2      \* the clock reads 0..MaxClock
MaxBets == 2       \* the bet list holds at most MaxBets wagers
MaxStakeK == 24    \* stakes of the resolve harness: 0.05 * k dollars, k <= MaxStakeK
MaxScore == 2      \* final scores 0..MaxScore
MaxLine == 2       \* lines of -MaxLine..MaxLine half points
MaxBulk == 2       \* entries of one bulk form (the form allows up to 10)

----------------------------------------------------------------------------
(* Text *)

None == <<>>
Some(v) == <<v>>

UpperLetters == <<"A","B","C","D","E","F","G","H","I","J","K","L","M",
                  "N","O","P","Q","R","S","T","U","V","W","X","Y","Z">>
LowerLetters == <<"a","b","c","d","e","f","g","h","i","j","k","l","m",
                  "n","o","p","q","r","s","t","u","v","w","x","y","z">>

\* str.lower() on one character
LowerChar(c) ==
    IF \E i \in DOMAIN UpperLetters : UpperLetters[i] = c
    THEN LowerLetters[CHOOSE i \in DOMAIN UpperLetters : UpperLetters[i] = c]
    ELSE c

\* str.lower()
Lower(s) == [i \in DOMAIN s |-> LowerChar(s[i])]

\* str.strip(): drop the leading and the trailing blanks
RECURSIVE LStrip(_)
LStrip(s) == IF s # <<>> /\ Head(s) = " " THEN LStrip(Tail(s)) ELSE s

RECURSIVE RStrip(_)
RStrip(s) ==
    IF s # <<>> /\ s[Len(s)] = " " THEN RStrip(SubSeq(s, 1, Len(s) - 1)) ELSE s

Strip(s) == RStrip(LStrip(s))

\* str.replace(' ', '')
RECURSIVE RemoveSpaces(_)
RemoveSpaces(s) ==
    IF s = <<>> THEN <<>>
    ELSE IF Head(s) = " " THEN RemoveSpaces(Tail(s))
    ELSE <<Head(s)>> \o RemoveSpaces(Tail(s))

\* a in b (Python's substring test; the empty text is in every text)
IsSubstr(a, b) ==
    \E i \in 0..(Len(b) - Len(a)) : SubSeq(b, i + 1, i + Len(a)) = a

\* the first position at which sep occurs in s, 0 when it does not
FirstAt(s, sep) ==
    IF IsSubstr(sep, s)
    THEN CHOOSE i \in 1..(Len(s) - Len(sep) + 1) :
            /\ SubSeq(s, i, i + Len(sep) - 1) = sep
            /\ \A j \in 1..(i - 1) : SubSeq(s, j, j + Len(sep) - 1) # sep
    ELSE 0

\* str.split(sep) for a non-empty sep: the parts between the occurrences
RECURSIVE SplitOn(_, _)
SplitOn(s, sep) ==
    IF FirstAt(s, sep) = 0 THEN <<s>>
    ELSE <<SubSeq(s, 1, FirstAt(s, sep) - 1)>>
         \o SplitOn(SubSeq(s, FirstAt(s, sep) + Len(sep), Len(s)), sep)

\* str.split(): the maximal runs of non-blank characters
RECURSIVE SplitWords(_)
SplitWords(s) ==
    IF LStrip(s) = <<>> THEN <<>>
    ELSE IF FirstAt(LStrip(s), <<" ">>) = 0 THEN <<LStrip(s)>>
    ELSE <<SubSeq(LStrip(s), 1, FirstAt(LStrip(s), <<" ">>) - 1)>>
         \o SplitWords(SubSeq(LStrip(s), FirstAt(LStrip(s), <<" ">>), Len(LStrip(s))))

SepVs == <<" ", "v", "s", " ">>
SepAt == <<" ", "@", " ">>

----------------------------------------------------------------------------
(* Numbers *)

Abs(n) == IF n < 0 THEN -n ELSE n
Sign(n) == IF n < 0 THEN -1 ELSE 1

\* Decimal.quantize(Decimal('0.01'), rounding=ROUND_HALF_UP) of n thousandths,
\* in cents: half away from zero
QuantizeHalfUp(n) == Sign(n) * ((Abs(n) + 5) \div 10)

RECURSIVE Pow2Mod125(_)
Pow2Mod125(k) == IF k = 0 THEN 1 ELSE (2 * Pow2Mod125(k - 1)) % 125

\* the binary exponent e of x = n/1000, n > 0: 2^e <= x < 2^(e+1)
RECURSIVE ExpUp(_, _)
ExpUp(n, e) == IF 1000 * (2 ^ (e + 1)) <= n THEN ExpUp(n, e + 1) ELSE e

RECURSIVE ExpDown(_, _)
ExpDown(n, j) == IF n * (2 ^ j) < 1000 THEN ExpDown(n, j + 1) ELSE j

BinExp(n) == IF n >= 1000 THEN ExpUp(n, 0) ELSE -ExpDown(n, 0)

\* float(Decimal) of n thousandths, n > 0: the nearest double is
\* round(n * 2^(49-e) / 125) * 2^(e-52); the remainder of that division says
\* whether the double is the exact value (0), below it (-1) or above it (1)
FloatError(n) ==
    LET r == ((n % 125) * Pow2Mod125(49 - BinExp(n))) % 125
    IN  IF r = 0 THEN 0 ELSE IF 2 * r < 125 THEN -1 ELSE 1

\* round(float(d), 2) of d = n thousandths, in cents: Python rounds the exact
\* binary value of the double correctly, ties of exact values to even
FloatRound2Abs(n) ==
    LET q == n \div 10
        d == n % 10
    IN  IF n = 0 THEN 0
        ELSE IF d < 5 THEN q
        ELSE IF d > 5 THEN q + 1
        ELSE IF FloatError(n) = 0 THEN (IF q % 2 = 0 THEN q ELSE q + 1)
        ELSE IF FloatError(n) < 0 THEN q
        ELSE q + 1

FloatRound2(n) == Sign(n) * FloatRound2Abs(Abs(n))

----------------------------------------------------------------------------
(* Literals of the program *)

TxtSpreadLower == <<"s","p","r","e","a","d">>
TxtOverUnderLower == <<"o","v","e","r","/","u","n","d","e","r">>
TxtSpread == <<"S","p","r","e","a","d">>
TxtOverUnder == <<"O","v","e","r","/","U","n","d","e","r">>
TxtOver == <<"O","v","e","r">>
TxtUnder == <<"U","n","d","e","r">>
TxtAwayTeam == <<"A","w","a","y"," ","T","e","a","m">>
TxtHomeTeam == <<"H","o","m","e"," ","T","e","a","m">>

Num(v) == [k |-> "num", v |-> v]
StrNum(v) == [k |-> "str", v |-> v]
Null == [k |-> "null", v |-> 0]
Absent == [k |-> "absent", v |-> 0]

\* dict.get(key, 0): the default replaces an absent key, not a None value
GetOrZero(x) == IF x.k = "absent" THEN Num(0) ELSE x

Raise(e) == [err |-> e, result |-> "None", final_pl |-> 0]
Return(r, pl) == [err |-> "", result |-> r, final_pl |-> pl]

----------------------------------------------------------------------------
(* referee.py *)

\* a win paid at the -110 price instead of even money
JuicePL_WinAtPrice(result, stake, no_juice) ==
    IF result = "W" THEN (IF no_juice THEN 10 * stake ELSE (100 * stake) \div 11)
    ELSE IF result = "L" THEN (IF no_juice THEN -(10 * stake) ELSE -(11 * stake))
    ELSE 0

\* the 10% juice rule of settleBet, in thousandths before rounding
JuicePL(result, stake, no_juice) ==
    IF result = "W" THEN 10 * stake
    ELSE IF result = "L" THEN (IF no_juice THEN -(10 * stake) ELSE -(11 * stake))
    ELSE 0

\* (Team_Score + Line) against Opponent_Score, scores in points, line in half points
Compare(adjusted2, opponent2) ==
    IF adjusted2 > opponent2 THEN "W"
    ELSE IF adjusted2 < opponent2 THEN "L"
    ELSE "P"

TotalsResult_UnderAsOver(pick, home_v, away_v, line) ==
    Compare(2 * (home_v + away_v), line)

\* lines 138-159: Over wins above the line, Under below it
TotalsResult(pick, home_v, away_v, line) ==
    IF pick = TxtOver THEN Compare(2 * (home_v + away_v), line)
    ELSE Compare(line, 2 * (home_v + away_v))

\* settleBet without the test of line 140: any other pick keeps result = 'P'
settleBet_PickFallsThrough(home, away, bet_type, user_pick, line, stake, no_juice) ==
    IF home.k = "null" \/ away.k = "null" \/ line = None
    THEN Raise("InvalidOperation")
    ELSE IF stake <= 0
    THEN Raise("ValueError")
    ELSE IF bet_type = "totals"
    THEN LET res == IF user_pick \notin {Some(TxtOver), Some(TxtUnder)} THEN "P"
                    ELSE TotalsResult(user_pick[1], home.v, away.v, line[1])
         IN  Return(res, QuantizeHalfUp(JuicePL(res, stake, no_juice)))
    ELSE Raise("ValueError")

\* settleBet(home_team_score, away_team_score, bet_type, user_pick, line, stake, no_juice)
\* bet_type: "spread", "totals" or anything else; user_pick, line: None or Some(_)
settleBet(home, away, bet_type, user_pick, line, stake, no_juice) ==
    IF home.k = "null" \/ away.k = "null" \/ line = None
    THEN Raise("InvalidOperation")          \* Decimal(str(None))
    ELSE IF stake <= 0
    THEN Raise("ValueError")
    ELSE IF bet_type = "spread"
    THEN LET res == IF line[1] < 0
                    THEN Compare(2 * home.v + line[1], 2 * away.v)
                    ELSE Compare(2 * away.v + line[1], 2 * home.v)
         IN  Return(res, QuantizeHalfUp(JuicePL(res, stake, no_juice)))
    ELSE IF bet_type = "totals"
    THEN IF user_pick \notin {Some(TxtOver), Some(TxtUnder)}
         THEN Raise("ValueError")
         ELSE LET res == TotalsResult(user_pick[1], home.v, away.v, line[1])
              IN  Return(res, QuantizeHalfUp(JuicePL(res, stake, no_juice)))
    ELSE Raise("ValueError")

----------------------------------------------------------------------------
(* bet_tracker.py: settle_bet *)

\* the score record's 'scores' value: absent, None, a list of entries, or a dict
\* {home, away}; an entry or a dict value is a score [k, v]
ScoresList(gs) == gs.scores_t = "list" /\ Len(gs.scores) >= 2

\* lines 254-261: [err, home, away]
ExtractScores(gs) ==
    IF ScoresList(gs)
    THEN [err |-> "", home |-> GetOrZero(gs.scores[1]), away |-> GetOrZero(gs.scores[2])]
    ELSE IF gs.scores_t \in {"null", "list"}
    THEN [err |-> "AttributeError", home |-> Null, away |-> Null]
    ELSE LET dflt_home == IF gs.scores_t = "dict" THEN GetOrZero(gs.scores[1]) ELSE Num(0)
             dflt_away == IF gs.scores_t = "dict" THEN GetOrZero(gs.scores[2]) ELSE Num(0)
         IN  [err |-> "",
              home |-> IF gs.home_score.k = "absent" THEN dflt_home ELSE gs.home_score,
              away |-> IF gs.away_score.k = "absent" THEN dflt_away ELSE gs.away_score]

\* any other kind taken as a total
BetTypeOf_ElseTotals(bet) ==
    IF Lower(bet.bet_type) = TxtSpreadLower THEN "spread" ELSE "totals"

\* lines 272-278
BetTypeOf(bet) ==
    IF Lower(bet.bet_type) = TxtSpreadLower THEN "spread"
    ELSE IF Lower(bet.bet_type) = TxtOverUnderLower THEN "totals"
    ELSE "invalid"

\* lines 291-292, the inner normalize_team_name
NormalizeName(name) == RemoveSpaces(Lower(Strip(name)))

BettingOnHome_SubstrFirst(pick, score_home, score_away, line) ==
    LET p == NormalizeName(pick)
        h == NormalizeName(score_home)
        a == NormalizeName(score_away)
    IN  IF p = h THEN TRUE
        ELSE IF IsSubstr(p, h) \/ IsSubstr(h, p) THEN TRUE
        ELSE IF p = a THEN FALSE
        ELSE IF IsSubstr(p, a) \/ IsSubstr(a, p) THEN FALSE
        ELSE line < 0

BettingOnHome_ZeroIsHome(pick, score_home, score_away, line) ==
    LET p == NormalizeName(pick)
        h == NormalizeName(score_home)
        a == NormalizeName(score_away)
    IN  IF p = h THEN TRUE
        ELSE IF p = a THEN FALSE
        ELSE IF IsSubstr(p, h) \/ IsSubstr(h, p) THEN TRUE
        ELSE IF IsSubstr(p, a) \/ IsSubstr(a, p) THEN FALSE
        ELSE line <= 0

\* lines 298-312: which side the pick backs
BettingOnHome(pick, score_home, score_away, line) ==
    LET p == NormalizeName(pick)
        h == NormalizeName(score_home)
        a == NormalizeName(score_away)
    IN  IF p = h THEN TRUE
        ELSE IF p = a THEN FALSE
        ELSE IF IsSubstr(p, h) \/ IsSubstr(h, p) THEN TRUE
        ELSE IF IsSubstr(p, a) \/ IsSubstr(a, p) THEN FALSE
        ELSE line < 0

\* the away side compared without its line
SpreadResult_AwayNoLine(on_home, home_v, away_v, line) ==
    IF on_home THEN Compare(2 * home_v + line, 2 * away_v)
    ELSE Compare(2 * away_v, 2 * home_v)

SpreadResult_LineOnHome(on_home, home_v, away_v, line) ==
    Compare(2 * home_v + line, 2 * away_v)

\* lines 338-360
SpreadResult(on_home, home_v, away_v, line) ==
    IF on_home THEN Compare(2 * home_v + line, 2 * away_v)
    ELSE Compare(2 * away_v + line, 2 * home_v)

\* a push that costs the juice
SpreadProfit_PushPaysJuice(result, stake, no_juice) ==
    IF result = "W" THEN FloatRound2(10 * stake)
    ELSE IF result = "L"
    THEN (IF no_juice THEN FloatRound2(-(10 * stake)) ELSE FloatRound2(-(11 * stake)))
    ELSE IF no_juice THEN 0 ELSE FloatRound2(-stake)

\* lines 362-377: the profit of a Spread wager, in cents: the juice rule in
\* Decimal, then float() and round(final_pl, 2)
SpreadProfit(result, stake, no_juice) ==
    IF result = "W" THEN FloatRound2(10 * stake)
    ELSE IF result = "L"
    THEN (IF no_juice THEN FloatRound2(-(10 * stake)) ELSE FloatRound2(-(11 * stake)))
    ELSE 0

\* a push that returns nothing
Payout_WinOnly(result, stake) == IF result = "W" THEN stake ELSE 0

\* lines 383, 411
Payout(result, stake) == IF result = "W" THEN stake ELSE IF result = "P" THEN stake ELSE 0

\* lines 386, 414: the text "<home> <home_score> - <away_score> <away>"
FinalScore(gs, home, away) == <<gs.home_team, home.v, away.v, gs.away_team>>

\* the copy without the assignment of lines 384, 412
Settled_FlagNotSet(bet, result, profit, t, gs, home, away) ==
    [bet EXCEPT !.result = result,
                !.profit = profit,
                !.payout = Payout(result, bet.stake),
                !.settled_at = Some(t),
                !.final_score = Some(FinalScore(gs, home, away))]

\* lines 379-388, 407-416: the copy of the wager that carries the settlement
Settled(bet, result, profit, t, gs, home, away) ==
    [bet EXCEPT !.result = result,
                !.profit = profit,
                !.payout = Payout(result, bet.stake),
                !.settled = TRUE,
                !.settled_at = Some(t),
                !.final_score = Some(FinalScore(gs, home, away))]

Raised(bet, e) == [err |-> e, bet |-> bet]
Returned(bet) == [err |-> "", bet |-> bet]

\* the wager passed in, after the call, were updated_bet the dict passed in
InputAfter_NoCopy(bet, out) == IF out.err = "" THEN out.bet ELSE bet

\* lines 380, 408: updated_bet = bet.copy() is a new dict, and the assignments
\* of lines 381-386 and 409-414 go to it; the wager passed in, after the call
InputAfter(bet, out) == bet

\* settle_bet(bet, game_score), called when the clock reads t: [err, bet]
settle_bet(bet, gs, t) ==
    LET sc == ExtractScores(gs)
        bt == BetTypeOf(bet)
        user_pick == IF bt = "spread" THEN bet.team ELSE bet.direction
        line == IF bt = "spread" THEN bet.spread ELSE bet.total
    IN  IF sc.err # "" THEN Raised(bet, sc.err)
        ELSE IF sc.home.k = "null" \/ sc.away.k = "null" THEN Raised(bet, "ValueError")
        ELSE IF bt = "invalid" THEN Raised(bet, "ValueError")
        ELSE IF bt = "spread"
        THEN IF user_pick = None THEN Raised(bet, "AttributeError")
             ELSE IF line = None \/ sc.home.k = "str" \/ sc.away.k = "str"
             THEN Raised(bet, "TypeError")
             ELSE LET on_home == BettingOnHome(user_pick[1], gs.home_team,
                                               gs.away_team, line[1])
                      res == SpreadResult(on_home, sc.home.v, sc.away.v, line[1])
                  IN  Returned(Settled(bet, res,
                                       SpreadProfit(res, bet.stake, bet.no_juice),
                                       t, gs, sc.home, sc.away))
        ELSE LET s == settleBet(sc.home, sc.away, bt, user_pick, line,
                                bet.stake, bet.no_juice)
             IN  IF s.err # "" THEN Raised(bet, s.err)
                 ELSE Returned(Settled(bet, s.result, s.final_pl, t, gs, sc.home, sc.away))

----------------------------------------------------------------------------
(* bet_tracker.py: find_matching_game, auto_settle_bets *)

\* line 177-183, the module's normalize_team_name
normalize_team_name(name) == Strip(name)

\* lines 188-199: [err, found, home, away]; two-value unpacking of a split
\* raises ValueError unless the split has exactly two parts
ParseGame(bet_game) ==
    IF IsSubstr(SepVs, bet_game)
    THEN LET parts == SplitOn(bet_game, SepVs)
         IN  IF Len(parts) # 2
             THEN [err |-> "ValueError", found |-> FALSE, home |-> <<>>, away |-> <<>>]
             ELSE [err |-> "", found |-> TRUE, home |-> parts[1], away |-> parts[2]]
    ELSE IF IsSubstr(SepAt, bet_game)
    THEN LET parts == SplitOn(bet_game, SepAt)
         IN  IF Len(parts) # 2
             THEN [err |-> "ValueError", found |-> FALSE, home |-> <<>>, away |-> <<>>]
             ELSE [err |-> "", found |-> TRUE, home |-> parts[2], away |-> parts[1]]
    ELSE LET parts == SplitWords(bet_game)
         IN  IF Len(parts) >= 2
             THEN [err |-> "", found |-> TRUE, home |-> parts[Len(parts)], away |-> parts[1]]
             ELSE [err |-> "", found |-> FALSE, home |-> <<>>, away |-> <<>>]

\* lines 223-224: the words of a name longer than 3 characters
LongWords(t) == {SplitWords(t)[i] : i \in {j \in DOMAIN SplitWords(t) : Len(SplitWords(t)[j]) > 3}}

\* the name test, were it to look for the first name in the second only
NamesMatch_OneWay(t1, t2) ==
    \/ t1 = t2
    \/ IsSubstr(t1, t2)
    \/ LongWords(t1) \cap LongWords(t2) # {}

\* lines 216-227, on the two names lowered and stripped
NamesMatch(t1, t2) ==
    \/ t1 = t2
    \/ IsSubstr(t1, t2) \/ IsSubstr(t2, t1)
    \/ LongWords(t1) \cap LongWords(t2) # {}

\* lines 213-227
teams_match(team1, team2) == NamesMatch(Strip(Lower(team1)), Strip(Lower(team2)))

\* line 206
TreatedCompleted(gs) == gs.completed \/ gs.scores_t \notin {"absent", "null"}

\* lines 208-234: the record is taken for the wager's game
RecordMatches(bet_home, bet_away, gs) ==
    /\ TreatedCompleted(gs)
    /\ \/ teams_match(bet_home, normalize_team_name(gs.home_team))
          /\ teams_match(bet_away, normalize_team_name(gs.away_team))
       \/ teams_match(bet_home, normalize_team_name(gs.away_team))
          /\ teams_match(bet_away, normalize_team_name(gs.home_team))

\* the matcher, were it to return the last record that matches
FirstMatch_Last(hits) ==
    IF hits = {} THEN [err |-> "", idx |-> 0]
    ELSE [err |-> "", idx |-> CHOOSE i \in hits : \A j \in hits : i >= j]

\* lines 205, 234: the loop returns at the first record that matches
FirstMatch(hits) ==
    IF hits = {} THEN [err |-> "", idx |-> 0]
    ELSE [err |-> "", idx |-> CHOOSE i \in hits : \A j \in hits : i <= j]

\* lines 201-236, with the game text read: [err, idx]
MatchParsed(p, scores) ==
    IF p.err # "" THEN [err |-> p.err, idx |-> 0]
    ELSE IF ~p.found THEN [err |-> "", idx |-> 0]
    ELSE FirstMatch({i \in DOMAIN scores :
                        RecordMatches(normalize_team_name(p.home),
                                      normalize_team_name(p.away), scores[i])})

\* find_matching_game(bet_game, scores): [err, idx], idx the position of the
\* record returned, 0 for None
find_matching_game(bet_game, scores) == MatchParsed(ParseGame(bet_game), scores)

\* lines 427-430, with the outcome m of find_matching_game
SettleMatched(bet, m, scores, t) ==
    IF m.err # "" THEN Raised(bet, m.err)
    ELSE IF m.idx # 0 /\ scores[m.idx].completed
    THEN settle_bet(bet, scores[m.idx], t)
    ELSE Returned(bet)

\* one turn of the loop without the test of line 422
AutoSettleOne_SettledToo(bet, scores, t) ==
    SettleMatched(bet, find_matching_game(bet.game, scores), scores, t)

\* lines 421-432, one turn of the loop: [err, bet]
AutoSettleOne(bet, scores, t) ==
    IF bet.settled THEN Returned(bet)
    ELSE SettleMatched(bet, find_matching_game(bet.game, scores), scores, t)

\* lines 420-434, with the outcome of every turn: an exception in one turn
\* leaves the function, and no list is returned
BatchOutcome(bs, turn) ==
    IF \E i \in DOMAIN bs : turn[i].err # ""
    THEN [err |-> turn[CHOOSE i \in DOMAIN bs :
                          turn[i].err # "" /\ \A j \in 1..(i - 1) : turn[j].err = ""].err,
          bets |-> bs]
    ELSE [err |-> "", bets |-> [i \in DOMAIN bs |-> turn[i].bet]]

\* auto_settle_bets(bets, scores): [err, bets]
auto_settle_bets(bs, scores, t) ==
    BatchOutcome(bs, [i \in DOMAIN bs |-> AutoSettleOne(bs[i], scores, t)])

----------------------------------------------------------------------------
(* The wager and the score record *)

\* lines 1494-1512: a wager as the forms create it
NewBet(id, game, bet_type, stake, team, spread, total, direction, no_juice) ==
    [id |-> id, game |-> game, bet_type |-> bet_type, stake |-> stake,
     team |-> team, spread |-> spread, total |-> total, direction |-> direction,
     no_juice |-> no_juice, result |-> "None", settled |-> FALSE, profit |-> 0,
     payout |-> 0, settled_at |-> None, final_score |-> None]

\* lines 1603-1611: the score record the forms build, 'scores' a list of two entries
ListRecord(home_team, away_team, s1, s2, completed) ==
    [home_team |-> home_team, away_team |-> away_team, scores_t |-> "list",
     scores |-> <<s1, s2>>, home_score |-> Absent, away_score |-> Absent,
     completed |-> completed]

\* a score record of any shape the feed may have
Record(home_team, away_team, scores_t, scores, home_score, away_score, completed) ==
    [home_team |-> home_team, away_team |-> away_team, scores_t |-> scores_t,
     scores |-> scores, home_score |-> home_score, away_score |-> away_score,
     completed |-> completed]

NoBet == NewBet(0, <<>>, <<>>, 0, None, None, None, None, FALSE)
NoRecord == Record(<<>>, <<>>, "absent", <<>>, Absent, Absent, FALSE)
NoCall == [called |-> FALSE, err |-> "", bet |-> NoBet]
Called(r) == [called |-> TRUE, err |-> r.err, bet |-> r.bet]
NoMatch == [called |-> FALSE, err |-> "", idx |-> 0]
Matched(m) == [called |-> TRUE, err |-> m.err, idx |-> m.idx]
NoOp == [op |-> "none", err |-> "", feed |-> <<>>]

----------------------------------------------------------------------------
(* The resolve harness: settle_bet applied twice to one (wager, record) pair *)

Ta == <<"a">>
Tb == <<"b">>
Game_ab == <<"a", " ", "v", "s", " ", "b">>

\* stakes in cents: multiples of 5 cents from -0.05 on, and the 100.00 of the examples
HarnessStakes == {5 * k : k \in (-1)..MaxStakeK} \cup {10000}
Lines == (-MaxLine)..MaxLine
TotalLines == 0..(2 * MaxLine)
Scores == 0..MaxScore

SpreadBet(team, line, stake, nj) ==
    NewBet(1, Game_ab, TxtSpread, stake, team, Some(line), None, None, nj)
TotalBet(direction, line, stake, nj) ==
    NewBet(1, Game_ab, TxtOverUnder, stake, None, None, Some(line), direction, nj)

\* every stake, with one winning, one losing and one pushing line
InitMoney ==
    /\ \E stake \in HarnessStakes, nj \in BOOLEAN, d \in {-1, 0, 1} :
          arg_bet \in {SpreadBet(Some(Ta), d - 2, stake, nj),
                       TotalBet(Some(TxtOver), d + 2, stake, nj)}
    /\ arg_gs = ListRecord(Ta, Tb, Num(1), Num(0), TRUE)

\* every score pair and line, both sides and both directions; the examples of
\* referee.py lines 189-253
InitOutcome ==
    \/ /\ \E line \in Lines, nj \in BOOLEAN :
             arg_bet \in {SpreadBet(Some(t), line, 10000, nj) : t \in {Ta, Tb}}
       /\ \E h \in Scores, a \in Scores : arg_gs = ListRecord(Ta, Tb, Num(h), Num(a), TRUE)
    \/ /\ \E line \in TotalLines, nj \in BOOLEAN :
             arg_bet \in {TotalBet(Some(d), line, 10000, nj) : d \in {TxtOver, TxtUnder}}
       /\ \E h \in Scores, a \in Scores : arg_gs = ListRecord(Ta, Tb, Num(h), Num(a), TRUE)
    \/ /\ arg_bet = SpreadBet(Some(Ta), -7, 10000, FALSE)
       /\ arg_gs \in {ListRecord(Ta, Tb, Num(24), Num(21), TRUE),
                       ListRecord(Ta, Tb, Num(24), Num(20), TRUE)}
    \/ /\ arg_bet = TotalBet(Some(TxtOver), 97, 10000, FALSE)
       /\ arg_gs \in {ListRecord(Ta, Tb, Num(28), Num(22), TRUE),
                       ListRecord(Ta, Tb, Num(24), Num(21), TRUE)}
    \/ /\ arg_bet = TotalBet(Some(TxtOver), 96, 10000, FALSE)
       /\ arg_gs = ListRecord(Ta, Tb, Num(24), Num(24), TRUE)

\* team names as the user and the feed write them
SideNames == {<<"a">>, <<"A">>, <<"a", "b">>, <<"A", " ", "b">>, <<" ", "b", " ">>,
              <<"c">>, <<>>}

InitSide ==
    /\ \E pick \in SideNames, line \in {-1, 0, 1} :
          arg_bet = SpreadBet(Some(pick), line, 10000, FALSE)
    /\ \E home \in SideNames, away \in SideNames :
          arg_gs = ListRecord(home, away, Num(1), Num(0), TRUE)

\* a score as the feed may carry it
FeedScores == {Num(1), StrNum(1), Null, Absent}

\* every shape of the record's scores: an entry list of any length, None, no
\* 'scores' key, a {home, away} dict, with or without home_score / away_score
InitShape ==
    /\ arg_bet \in {SpreadBet(Some(Ta), -1, 10000, FALSE),
                     TotalBet(Some(TxtOver), 1, 10000, FALSE)}
    /\ \/ \E s1 \in FeedScores, s2 \in FeedScores :
             arg_gs \in {Record(Ta, Tb, t, <<s1, s2>>, Absent, Absent, TRUE) :
                             t \in {"list", "dict"}}
       \/ \E s1 \in FeedScores :
             arg_gs \in {Record(Ta, Tb, "list", <<>>, Absent, Absent, TRUE),
                         Record(Ta, Tb, "list", <<s1>>, Absent, Absent, TRUE),
                         Record(Ta, Tb, "list", <<s1, Num(0), Num(2)>>, Absent, Absent, TRUE)}
       \/ \E s1 \in FeedScores, s2 \in FeedScores :
             arg_gs \in {Record(Ta, Tb, t, <<>>, s1, s2, TRUE) : t \in {"absent", "null"}}

\* wagers the forms would not create: unknown kinds and selections, no team, no line
InitMalformed ==
    /\ \/ \E bt \in {TxtSpreadLower, TxtOverUnderLower, <<"M", "L">>, <<>>},
            stake \in {-100, 0, 100} :
             arg_bet \in {NewBet(1, Game_ab, bt, stake, Some(Ta), Some(-1), Some(1),
                                 Some(TxtOver), FALSE)}
       \/ \E d \in {Some(Lower(TxtOver)), Some(<<>>), None}, line \in {None, Some(1)} :
             arg_bet = NewBet(1, Game_ab, TxtOverUnder, 10000, None, None, line, d, FALSE)
       \/ \E t \in {None, Some(Ta)}, line \in {None, Some(1)} :
             arg_bet = NewBet(1, Game_ab, TxtSpread, 10000, t, line, None, None, FALSE)
    /\ arg_gs = ListRecord(Ta, Tb, Num(1), Num(0), TRUE)

InitResolve ==
    /\ bets = <<>>
    /\ store = <<>>
    /\ now = 0
    /\ last = NoOp
    /\ other = <<>>
    /\ out1 = NoCall
    /\ out2 = NoCall
    /\ arg_scores = <<>>
    /\ out_m = NoMatch
    /\ InitMoney \/ InitOutcome \/ InitSide \/ InitShape \/ InitMalformed

\* time passes
Tick ==
    /\ now < MaxClock
    /\ now' = now + 1
    /\ UNCHANGED <<bets, store, last, other, arg_bet, arg_gs, out1, out2, arg_scores,
                   out_m>>

\* the caller resolves the pair
Resolve ==
    /\ ~out1.called
    /\ out1' = Called(settle_bet(arg_bet, arg_gs, now))
    /\ arg_bet' = InputAfter(arg_bet, settle_bet(arg_bet, arg_gs, now))
    /\ UNCHANGED <<bets, store, now, last, other, arg_gs, out2, arg_scores, out_m>>

\* the caller resolves the same pair once more
ResolveAgain ==
    /\ out1.called
    /\ ~out2.called
    /\ out2' = Called(settle_bet(arg_bet, arg_gs, now))
    /\ arg_bet' = InputAfter(arg_bet, settle_bet(arg_bet, arg_gs, now))
    /\ UNCHANGED <<bets, store, now, last, other, arg_gs, out1, arg_scores, out_m>>

NextResolve == Tick \/ Resolve \/ ResolveAgain

SpecResolve == InitResolve /\ [][NextResolve]_vars

----------------------------------------------------------------------------
(* The tracker: the session's wager list, the saved list and the handlers
   of the pages of bet_tracker.py *)

Tc == <<"c">>
Td == <<"d">>
Game_cd == <<"c", " ", "@", " ", "d">>
TxtAway == <<"A", "w", "a", "y">>
TxtHome == <<"H", "o", "m", "e">>

\* lines 63-83: what is in storage after save_bets(bs); an empty list is not written
save_bets(bs, saved) == IF bs = <<>> THEN saved ELSE bs

\* lines 45-61, 124-131: the session's list after initialize_data
initialize_data(saved) == IF saved # <<>> THEN saved ELSE <<>>

\* lines 1556-1568 (the same at 1335-1346 and 1667-1678): the two team names a
\* form reads from a wager's game text, [err, home, away]; the first name is
\* the away team, and unpacking a split of other than two parts raises
FormTeams(game_str, dflt_home, dflt_away) ==
    IF IsSubstr(SepVs, game_str) \/ IsSubstr(SepAt, game_str)
    THEN LET parts == IF IsSubstr(SepVs, game_str) THEN SplitOn(game_str, SepVs)
                      ELSE SplitOn(game_str, SepAt)
         IN  IF Len(parts) # 2
             THEN [err |-> "ValueError", home |-> <<>>, away |-> <<>>]
             ELSE [err |-> "", home |-> parts[2], away |-> parts[1]]
    ELSE LET parts == SplitWords(game_str)
         IN  IF Len(parts) >= 2
             THEN [err |-> "", home |-> parts[Len(parts)], away |-> parts[1]]
             ELSE [err |-> "", home |-> dflt_home, away |-> dflt_away]

\* lines 1577-1578, 1603-1611: the record of the settlement forms
FormRecord(teams, team1_score, team2_score) ==
    ListRecord(Strip(teams.home), Strip(teams.away),
               Num(team1_score), Num(team2_score), TRUE)

\* lines 1530, 1643
Pending(bs) == SelectSeq(bs, LAMBDA b : ~b.settled)
SettledOnes(bs) == SelectSeq(bs, LAMBDA b : b.settled)

\* lines 1552, 1663, 1789: next(b for b in list if b['id'] == id)
FirstWithId(bs, id) ==
    bs[CHOOSE i \in DOMAIN bs : bs[i].id = id /\ \A j \in 1..(i - 1) : bs[j].id # id]

\* lines 1618-1621, 1744-1747: the first wager of the list with this id is replaced
ReplaceFirst(bs, id, nb) ==
    IF \E i \in DOMAIN bs : bs[i].id = id
    THEN [bs EXCEPT ![CHOOSE i \in DOMAIN bs :
                         bs[i].id = id /\ \A j \in 1..(i - 1) : bs[j].id # id] = nb]
    ELSE bs

\* line 1808
WithoutId(bs, id) == SelectSeq(bs, LAMBDA b : b.id # id)

Ids(bs) == {bs[i].id : i \in DOMAIN bs}

\* what a handler leaves behind: its name, the exception that escaped it or
\* was shown by it, and for the batch the feed it settled against
Did(op, err) == [op |-> op, err |-> err, feed |-> <<>>]

\* lines 897-926
past_games ==
    <<
      [game |-> <<"T", "u", "l", "a", "n", "e", " ", "v", "s", " ", "O", "l", "e", " ", "M", "i", "s", "s">>,
       team1 |-> <<"T", "u", "l", "a", "n", "e">>, team1_score |-> 10,
       team2 |-> <<"O", "l", "e", " ", "M", "i", "s", "s">>, team2_score |-> 41],
      [game |-> <<"J", "a", "m", "e", " ", "M", "a", "d", "i", "s", "o", "n", " ", "v", "s", " ", "O", "r", "e", "g", "o", "n">>,
       team1 |-> <<"J", "a", "m", "e", " ", "M", "a", "d", "i", "s", "o", "n">>, team1_score |-> 34,
       team2 |-> <<"O", "r", "e", "g", "o", "n">>, team2_score |-> 51],
      [game |-> <<"M", "i", "a", "m", "i", " ", "v", "s", " ", "T", "X", " ", "A", "M">>,
       team1 |-> <<"M", "i", "a", "m", "i">>, team1_score |-> 10,
       team2 |-> <<"T", "X", " ", "A", "M">>, team2_score |-> 3],
      [game |-> <<"A", "l", "a", "b", "a", "m", "a", " ", "v", "s", " ", "O", "k", "l", "a", "h", "o", "m", "a">>,
       team1 |-> <<"A", "l", "a", "b", "a", "m", "a">>, team1_score |-> 34,
       team2 |-> <<"O", "k", "l", "a", "h", "o", "m", "a">>, team2_score |-> 24]
    >>

\* what the forms let the user enter
UIGames == {<<>>, Game_ab, Game_cd}
UIBetTypes == {TxtSpread, TxtOverUnder}
UITeams == {<<>>, Ta}
UISpreads == {-2, 1}          \* half-points: -1.0 and +0.5
UITotals == {2}               \* half-points: 1.0
UIDirections == {TxtOver}
UIStakes == {115}             \* cents; the forms' min_value is 1.0, any amount can be typed
UIScores == 0..1
UINoJuice == {FALSE}
UIPastGames == {g \in DOMAIN past_games : g <= 1}   \* the first form of the page

\* lines 1902-1906: the events of the odds page
UIEvents == {[home |-> Tb, away |-> Ta]}

\* the score feed: numbers, the strings the odds service sends, a game not
\* yet started (no scores), a completed game whose scores are None, and a game
\* being played (scores on the board, completed false)
Feed_num == ListRecord(Tb, Ta, Num(1), Num(0), TRUE)
Feed_str == ListRecord(Tb, Ta, StrNum(1), StrNum(0), TRUE)
Feed_live == Record(Td, Tc, "null", <<>>, Absent, Absent, FALSE)
Feed_null == ListRecord(Td, Tc, Null, Null, TRUE)
Feed_playing == ListRecord(Tb, Ta, Num(0), Num(0), FALSE)
UIFeeds == {<<>>, <<Feed_num>>, <<Feed_str>>, <<Feed_live, Feed_num>>,
            <<Feed_null, Feed_num>>, <<Feed_playing, Feed_num>>}

\* lines 1475-1484, 1494-1512: the wager a form submits
FormBet(id, game, bet_type, stake, team, spread, total, direction, no_juice) ==
    IF bet_type = TxtSpread
    THEN NewBet(id, game, bet_type, stake, Some(team), Some(spread), None, None, no_juice)
    ELSE NewBet(id, game, bet_type, stake, None, None, Some(total), Some(direction),
                no_juice)

\* lines 1367-1381: what the bulk form can hold in one of its entries
UIBulkEntries ==
    [game : {<<>>, Game_ab}, bet_type : UIBetTypes, team : {<<>>, Ta},
     spread : {1}, total : UITotals, direction : {TxtOver},
     stake : UIStakes, no_juice : UINoJuice, home_score : {1}, away_score : {0}]

\* lines 1392-1448: the loop over the entries, [bets, success_count]
RECURSIVE BulkLoop(_, _, _, _)
BulkLoop(entries, bs, success_count, t) ==
    IF entries = <<>> THEN [bets |-> bs, success_count |-> success_count]
    ELSE LET bet_data == Head(entries)
             teams == FormTeams(bet_data.game, TxtHome, TxtAway)
             new_bulk_bet == FormBet(Len(bs) + success_count + 1, bet_data.game,
                                     bet_data.bet_type, bet_data.stake, bet_data.team,
                                     bet_data.spread, bet_data.total,
                                     bet_data.direction, bet_data.no_juice)
             r == settle_bet(new_bulk_bet,
                             FormRecord(teams, bet_data.home_score, bet_data.away_score), t)
         IN  IF bet_data.game = <<>>
                \/ (bet_data.bet_type = TxtSpread /\ bet_data.team = <<>>)
                \/ r.err # ""
             THEN BulkLoop(Tail(entries), bs, success_count, t)
             ELSE BulkLoop(Tail(entries), Append(bs, r.bet), success_count + 1, t)

Init ==
    /\ store = <<>>
    /\ bets = initialize_data(store)
    /\ now = 0
    /\ last = NoOp
    /\ other = <<>>
    /\ arg_bet = NoBet
    /\ arg_gs = NoRecord
    /\ out1 = NoCall
    /\ out2 = NoCall
    /\ arg_scores = <<>>
    /\ out_m = NoMatch

\* lines 1488-1517: the Place Bet form
PlaceBet ==
    /\ Len(bets) < MaxBets
    /\ \E game \in UIGames, bet_type \in UIBetTypes, team \in UITeams,
          spread \in UISpreads, total \in UITotals, direction \in UIDirections,
          stake \in UIStakes, no_juice \in UINoJuice :
          /\ game # <<>>
          /\ ~(bet_type = TxtSpread /\ team = <<>>)
          /\ bets' = Append(bets, FormBet(Len(bets) + 1, game, bet_type, stake, team,
                                          spread, total, direction, no_juice))
          /\ store' = save_bets(bets', store)
    /\ last' = Did("place_bet", "")
    /\ UNCHANGED <<now, other, arg_bet, arg_gs, out1, out2, arg_scores, out_m>>

\* lines 2004-2028: the quick bet form of an event of the odds page
QuickAdd ==
    /\ Len(bets) < MaxBets
    /\ \E ev \in UIEvents, bet_type \in UIBetTypes, spread \in UISpreads,
          total \in UITotals, direction \in UIDirections, stake \in UIStakes,
          no_juice \in UINoJuice :
          \E team \in {ev.away, ev.home} :
             /\ bets' = Append(bets, FormBet(Len(bets) + 1, ev.away \o SepVs \o ev.home,
                                             bet_type, stake, team, spread, total,
                                             direction, no_juice))
             /\ store' = save_bets(bets', store)
    /\ last' = Did("quick_add", "")
    /\ UNCHANGED <<now, other, arg_bet, arg_gs, out1, out2, arg_scores, out_m>>

\* lines 954-1003: the form of a past game; the wager is settled at once
PastAdd ==
    /\ Len(bets) < MaxBets
    /\ now < MaxClock
    /\ \E g \in UIPastGames, bet_type \in UIBetTypes, spread \in UISpreads,
          total \in UITotals, direction \in UIDirections, stake \in UIStakes,
          no_juice \in UINoJuice :
          \E team \in {past_games[g].team1, past_games[g].team2} :
             LET game_data == past_games[g]
                 new_past_bet == FormBet(Len(bets) + 1, game_data.game, bet_type, stake,
                                         team, spread, total, direction, no_juice)
                 past_game_score == ListRecord(game_data.team1, game_data.team2,
                                               Num(game_data.team1_score),
                                               Num(game_data.team2_score), TRUE)
                 r == settle_bet(new_past_bet, past_game_score, now)
             IN  /\ IF r.err = ""
                    THEN /\ bets' = Append(bets, r.bet)
                         /\ store' = save_bets(bets', store)
                    ELSE UNCHANGED <<bets, store>>
                 /\ last' = Did("past_add", r.err)
    /\ now' = now + 1
    /\ UNCHANGED <<other, arg_bet, arg_gs, out1, out2, arg_scores, out_m>>

\* lines 1388-1458: the bulk entry form; an entry whose game text cannot be
\* read stops the page before the form is handled (lines 1335-1338)
BulkAdd ==
    /\ now < MaxClock
    /\ \E n \in 1..MaxBulk :
          /\ Len(bets) + n <= MaxBets
          /\ \E bulk_bets_data \in [1..n -> UIBulkEntries] :
                LET r == BulkLoop(bulk_bets_data, bets, 0, now)
                IN  /\ \A i \in 1..n :
                          FormTeams(bulk_bets_data[i].game, TxtHome, TxtAway).err = ""
                    /\ bets' = r.bets
                    /\ store' = IF r.success_count > 0 THEN save_bets(r.bets, store)
                                ELSE store
    /\ last' = Did("bulk_add", "")
    /\ now' = now + 1
    /\ UNCHANGED <<other, arg_bet, arg_gs, out1, out2, arg_scores, out_m>>

\* lines 1600-1634: the manual settlement form, for a pending wager
ManualSettle ==
    /\ now < MaxClock
    /\ \E selected_bet_id \in Ids(Pending(bets)), team1_score \in UIScores,
          team2_score \in UIScores :
          LET selected_bet == FirstWithId(Pending(bets), selected_bet_id)
              teams == FormTeams(selected_bet.game, TxtHomeTeam, TxtAwayTeam)
              r == settle_bet(selected_bet, FormRecord(teams, team1_score, team2_score),
                              now)
          IN  /\ teams.err = ""
              /\ IF r.err = ""
                 THEN /\ bets' = ReplaceFirst(bets, selected_bet_id, r.bet)
                      /\ store' = save_bets(bets', store)
                 ELSE UNCHANGED <<bets, store>>
              /\ last' = Did("manual_settle", r.err)
    /\ now' = now + 1
    /\ UNCHANGED <<other, arg_bet, arg_gs, out1, out2, arg_scores, out_m>>

\* lines 1724-1760: the re-settlement form, for a settled wager
ReSettle ==
    /\ now < MaxClock
    /\ \E selected_settled_id \in Ids(SettledOnes(bets)), team1_score \in UIScores,
          team2_score \in UIScores :
          LET selected_settled_bet == FirstWithId(SettledOnes(bets), selected_settled_id)
              teams == FormTeams(selected_settled_bet.game, TxtHomeTeam, TxtAwayTeam)
              bet_to_resettle == [selected_settled_bet EXCEPT !.settled = FALSE]
              r == settle_bet(bet_to_resettle,
                              FormRecord(teams, team1_score, team2_score), now)
          IN  /\ teams.err = ""
              /\ IF r.err = ""
                 THEN /\ bets' = ReplaceFirst(bets, selected_settled_id, r.bet)
                      /\ store' = save_bets(bets', store)
                 ELSE UNCHANGED <<bets, store>>
              /\ last' = Did("re_settle", r.err)
    /\ now' = now + 1
    /\ UNCHANGED <<other, arg_bet, arg_gs, out1, out2, arg_scores, out_m>>

\* lines 1806-1811: Delete This Bet
DeleteBet ==
    /\ \E selected_delete_id \in Ids(bets) :
          /\ bets' = WithoutId(bets, selected_delete_id)
          /\ store' = save_bets(bets', store)
    /\ last' = Did("delete_bet", "")
    /\ UNCHANGED <<now, other, arg_bet, arg_gs, out1, out2, arg_scores, out_m>>

\* lines 588-596 (the same at 610-616): Auto-Settle Bets; an exception that
\* leaves auto_settle_bets ends the run of the page, nothing is assigned or saved
AutoSettle ==
    /\ now < MaxClock
    /\ \E scores \in UIFeeds :
          /\ scores # <<>>
          /\ LET r == auto_settle_bets(bets, scores, now)
             IN  /\ bets' = r.bets
                 /\ store' = IF r.err = "" THEN save_bets(r.bets, store) ELSE store
                 /\ last' = [op |-> "auto_settle", err |-> r.err, feed |-> scores]
    /\ now' = now + 1
    /\ UNCHANGED <<other, arg_bet, arg_gs, out1, out2, arg_scores, out_m>>

\* lines 124-131: a new session of the page loads the saved list
NewSession ==
    /\ bets' = initialize_data(store)
    /\ last' = Did("new_session", "")
    /\ UNCHANGED <<store, now, other, arg_bet, arg_gs, out1, out2, arg_scores, out_m>>

Next ==
    \/ PlaceBet
    \/ QuickAdd
    \/ PastAdd
    \/ BulkAdd
    \/ ManualSettle
    \/ ReSettle
    \/ DeleteBet
    \/ AutoSettle
    \/ NewSession

Spec == Init /\ [][Next]_vars

\* lines 26-31: every session of the page has a bet list of its own; from here
\* on the handlers run in the other of the two open sessions
SwitchSession ==
    /\ bets' = other
    /\ other' = bets
    /\ last' = Did("switch_session", "")
    /\ UNCHANGED <<store, now, arg_bet, arg_gs, out1, out2, arg_scores, out_m>>

\* the wagers the two sessions work with: Over/Under wagers on one game
SessionWagers ==
    \A i \in DOMAIN bets : bets[i].bet_type = TxtOverUnder /\ bets[i].game = Game_ab

\* two sessions open at the same time, placing, settling and deleting wagers
NextSessions ==
    \/ PlaceBet /\ SessionWagers'
    \/ ManualSettle /\ SessionWagers'
    \/ DeleteBet /\ SessionWagers'
    \/ NewSession /\ SessionWagers'
    \/ SwitchSession /\ SessionWagers'

SpecSessions == Init /\ [][NextSessions]_vars

----------------------------------------------------------------------------
(* The match harness: find_matching_game applied to a wager's game text and a
   list of score records *)

MaxCands == 2      \* the list of score records has at most MaxCands records

TxtTulane == <<"T", "u", "l", "a", "n", "e">>
TxtOleMiss == <<"O", "l", "e", " ", "M", "i", "s", "s">>
TxtOleMissRebels == <<"O", "l", "e", " ", "M", "i", "s", "s", " ", "R", "e", "b", "e", "l", "s">>
TxtTulaneGreenWave == <<"T", "u", "l", "a", "n", "e", " ", "G", "r", "e", "e", "n", " ", "W", "a", "v", "e">>
TxtOregonDucks == <<"O", "r", "e", "g", "o", "n", " ", "D", "u", "c", "k", "s">>
TxtJamesMadisonDukes == <<"J", "a", "m", "e", "s", " ", "M", "a", "d", "i", "s", "o", "n", " ", "D", "u", "k", "e", "s">>

\* game texts: both separators, bare words, one word, nothing, an empty side,
\* two separators, and the game of the first past-game form
MatchLabels ==
    {Game_ab, <<"b", " ", "@", " ", "a">>, <<"a", " ", "b">>, Ta, <<>>,
     Ta \o SepVs, SepVs \o Tb, SepVs, Ta \o SepAt,
     Ta \o SepVs \o Tb \o SepVs \o Tc,
     TxtTulane \o SepVs \o TxtOleMiss}

\* [home_team, away_team] of the records of the feed
MatchNames ==
    {<<Ta, Tb>>, <<Tb, Ta>>, <<Tc, Td>>,
     <<TxtOleMissRebels, TxtTulaneGreenWave>>,
     <<TxtOregonDucks, TxtJamesMadisonDukes>>}

\* a record of the feed: finished (completed, with scores), being played (not
\* completed, with scores), not started (not completed, 'scores' None)
MatchCands ==
    {ListRecord(n[1], n[2], Num(1), Num(0), c) : n \in MatchNames, c \in BOOLEAN}
    \cup {Record(n[1], n[2], "null", <<>>, Absent, Absent, FALSE) : n \in MatchNames}

InitMatch ==
    /\ bets = <<>>
    /\ store = <<>>
    /\ now = 0
    /\ last = NoOp
    /\ other = <<>>
    /\ \E label \in MatchLabels :
          arg_bet = NewBet(1, label, TxtOverUnder, 100, None, None, Some(2),
                           Some(TxtOver), FALSE)
    /\ arg_gs = NoRecord
    /\ out1 = NoCall
    /\ out2 = NoCall
    /\ \E n \in 0..MaxCands : arg_scores \in [1..n -> MatchCands]
    /\ out_m = NoMatch

\* line 426: the batch looks the wager's game up in the feed
FindMatch ==
    /\ ~out_m.called
    /\ out_m' = Matched(find_matching_game(arg_bet.game, arg_scores))
    /\ UNCHANGED <<bets, store, now, last, other, arg_bet, arg_gs, out1, out2,
                   arg_scores>>

NextMatch == FindMatch

SpecMatch == InitMatch /\ [][NextMatch]_vars

----------------------------------------------------------------------------
(* Properties of resolve, checked under SpecResolve *)

Resolved == out1.called /\ out1.err = ""
IsSpread == BetTypeOf(arg_bet) = "spread"
IsTotal == BetTypeOf(arg_bet) = "totals"

\* the two final scores as settle_bet reads a list record: first entry home
HomePoints == arg_gs.scores[1].v
AwayPoints == arg_gs.scores[2].v
NumericList ==
    /\ arg_gs.scores_t = "list" /\ Len(arg_gs.scores) = 2
    /\ arg_gs.scores[1].k = "num" /\ arg_gs.scores[2].k = "num"

\* C1: a resolved wager with a positive stake whose outcome is Loss has profit
\* -stake when no_juice, else -(stake * 1.1) rounded half-up to cents, Spread
\* and Total alike
C1_LossProfit ==
    (Resolved /\ arg_bet.stake > 0 /\ out1.bet.result = "L") =>
        out1.bet.profit = IF arg_bet.no_juice THEN -arg_bet.stake
                          ELSE -((11 * arg_bet.stake + 5) \div 10)

\* C2: resolving the same (wager, score record) pair twice yields the same
\* settlement in every field, resolved_at included
C2_SameSettlementTwice ==
    (out1.called /\ out2.called) => out1 = out2

\* C3: a Spread wager is a Win iff backed score + line > opponent score, a Loss
\* iff it is less, a Push iff they are equal
C3_SpreadOutcome ==
    (Resolved /\ IsSpread /\ NumericList) =>
        LET on_home == BettingOnHome(arg_bet.team[1], arg_gs.home_team,
                                     arg_gs.away_team, arg_bet.spread[1])
            backed == IF on_home THEN HomePoints ELSE AwayPoints
            opponent == IF on_home THEN AwayPoints ELSE HomePoints
            adjusted2 == 2 * backed + arg_bet.spread[1]
        IN  /\ out1.bet.result \in {"W", "L", "P"}
            /\ out1.bet.result = "W" <=> adjusted2 > 2 * opponent
            /\ out1.bet.result = "L" <=> adjusted2 < 2 * opponent
            /\ out1.bet.result = "P" <=> adjusted2 = 2 * opponent

\* home 24, away 20, home backed at -3.5: resolved as a Win
C3_Witness ==
    /\ Resolved /\ IsSpread /\ NumericList
    /\ HomePoints = 24 /\ AwayPoints = 20 /\ arg_bet.spread = Some(-7)
    /\ out1.bet.result = "W"

\* C4: a Total wager on Over is a Win iff home + away > line, a Loss iff it is
\* less, else a Push; on Under a Win iff home + away < line, a Loss iff it is
\* more, else a Push
C4_TotalOutcome ==
    (Resolved /\ IsTotal /\ NumericList) =>
        LET total2 == 2 * (HomePoints + AwayPoints)
            line == arg_bet.total[1]
            over == arg_bet.direction = Some(TxtOver)
        IN  /\ arg_bet.direction \in {Some(TxtOver), Some(TxtUnder)}
            /\ out1.bet.result \in {"W", "L", "P"}
            /\ out1.bet.result = "W" <=> IF over THEN total2 > line ELSE total2 < line
            /\ out1.bet.result = "L" <=> IF over THEN total2 < line ELSE total2 > line
            /\ out1.bet.result = "P" <=> total2 = line

\* an Under wager resolved as a Win
C4_Witness ==
    /\ Resolved /\ IsTotal /\ NumericList
    /\ arg_bet.direction = Some(TxtUnder)
    /\ 2 * (HomePoints + AwayPoints) < arg_bet.total[1]
    /\ out1.bet.result = "W"

\* the outcome of a Spread wager when the side backed is home / away
HomeBackedResult ==
    IF 2 * HomePoints + arg_bet.spread[1] > 2 * AwayPoints THEN "W"
    ELSE IF 2 * HomePoints + arg_bet.spread[1] < 2 * AwayPoints THEN "L" ELSE "P"
AwayBackedResult ==
    IF 2 * AwayPoints + arg_bet.spread[1] > 2 * HomePoints THEN "W"
    ELSE IF 2 * AwayPoints + arg_bet.spread[1] < 2 * HomePoints THEN "L" ELSE "P"

PickN == RemoveSpaces(Lower(Strip(arg_bet.team[1])))
HomeN == RemoveSpaces(Lower(Strip(arg_gs.home_team)))
AwayN == RemoveSpaces(Lower(Strip(arg_gs.away_team)))
Contains(x, y) == IsSubstr(x, y) \/ IsSubstr(y, x)

\* C5: the normalized selection equal to the normalized home name backs home;
\* otherwise equal to the normalized away name backs away, also when the
\* selection is contained in the home name
C5_EqualityFirst ==
    (Resolved /\ IsSpread /\ NumericList) =>
        /\ PickN = HomeN => out1.bet.result = HomeBackedResult
        /\ (PickN # HomeN /\ PickN = AwayN) => out1.bet.result = AwayBackedResult

\* the selection equals the away name and is a proper part of the home name,
\* and the two sides give different outcomes
C5_Witness ==
    /\ Resolved /\ IsSpread /\ NumericList
    /\ PickN = AwayN /\ PickN # HomeN /\ IsSubstr(PickN, HomeN)
    /\ HomeBackedResult # AwayBackedResult
    /\ out1.bet.result = AwayBackedResult

\* C6: the sign of the line decides the side only when the selection matches
\* neither name (no equality, no containment either way): then home iff
\* line < 0; a selection that matches one name only backs that side whatever
\* the line
C6_LineSignFallback ==
    (Resolved /\ IsSpread /\ NumericList) =>
        /\ (~Contains(PickN, HomeN) /\ ~Contains(PickN, AwayN)) =>
               out1.bet.result = IF arg_bet.spread[1] < 0 THEN HomeBackedResult
                                 ELSE AwayBackedResult
        /\ (Contains(PickN, HomeN) /\ ~Contains(PickN, AwayN)) =>
               out1.bet.result = HomeBackedResult
        /\ (Contains(PickN, AwayN) /\ ~Contains(PickN, HomeN)) =>
               out1.bet.result = AwayBackedResult

\* no name matches and the line is 0: the away side is backed
C6_Witness ==
    /\ Resolved /\ IsSpread /\ NumericList
    /\ ~Contains(PickN, HomeN) /\ ~Contains(PickN, AwayN)
    /\ arg_bet.spread = Some(0)
    /\ HomeBackedResult # AwayBackedResult
    /\ out1.bet.result = AwayBackedResult

\* a final score of the record is absent or null, in the entry list or in the
\* home_score / away_score pair
MissingIn(x) == x.k \in {"absent", "null"}
HasMissingScore(gs) ==
    IF gs.scores_t = "list"
    THEN Len(gs.scores) < 2 \/ MissingIn(gs.scores[1]) \/ MissingIn(gs.scores[2])
    ELSE IF gs.scores_t = "dict"
    THEN \/ MissingIn(gs.home_score) /\ MissingIn(gs.scores[1])
         \/ MissingIn(gs.away_score) /\ MissingIn(gs.scores[2])
    ELSE MissingIn(gs.home_score) \/ MissingIn(gs.away_score)

\* C7: resolve raises and settles nothing whenever a final score of the record
\* is absent or null
C7_MissingScoreRaises ==
    (out1.called /\ HasMissingScore(arg_gs)) =>
        (out1.err # "" /\ ~out1.bet.settled)

\* C8: resolve raises and settles nothing when the stake is not positive,
\* Spread and Total alike
C8_NonPositiveStakeRaises ==
    (out1.called /\ arg_bet.stake <= 0) =>
        (out1.err # "" /\ ~out1.bet.settled)

----------------------------------------------------------------------------

\* the feed can settle this wager: it is not settled, a completed record of the
\* feed matches its game, and resolving it against that record raises nothing
CanSettle(bet, scores) ==
    /\ ~bet.settled
    /\ AutoSettleOne(bet, scores, 0).err = ""
    /\ AutoSettleOne(bet, scores, 0).bet.settled

\* C9: an error raised while one wager of a batch settlement is resolved is
\* local to that wager: once the batch has run against a feed, every wager the
\* feed can settle is settled and kept in the saved list, whatever another
\* wager of the batch raised; the batch is not aborted as a whole.
C9_BatchErrorsAreLocal ==
    last.op = "auto_settle" =>
        /\ \A i \in DOMAIN bets : ~CanSettle(bets[i], last.feed)
        /\ bets # <<>> => store = bets

\* C10: wager ids are unique: after any sequence of place-bet, quick-add,
\* bulk-add, settle and delete operations no two wagers of the bet list have
\* the same id, so a new wager never receives an id held by another wager.
C10_IdsUnique ==
    \A i \in DOMAIN bets : \A j \in DOMAIN bets : i # j => bets[i].id # bets[j].id

\* the wager as it was before any settlement
NeverSettled(b) ==
    [b EXCEPT !.settled = FALSE, !.result = "None", !.profit = 0, !.payout = 0,
              !.settled_at = None, !.final_score = None]

\* the two wagers carry the same settlement
SameSettlement(x, y) ==
    /\ x.settled = y.settled
    /\ x.result = y.result
    /\ x.profit = y.profit
    /\ x.payout = y.payout
    /\ x.final_score = y.final_score

\* the step is one run of the re-settlement form
ReSettleStep == last'.op = "re_settle" /\ now' = now + 1

\* C11: re-settlement replaces the prior settlement wholesale: a run of the
\* re-settlement form that raises nothing leaves one settled wager of the list
\* with exactly the result, profit, payout and final score that settling a
\* never-settled copy of that wager with the same scores produces, and leaves
\* every other wager as it was; a run that raises leaves the list as it was.
C11_ReSettleReplaces ==
    [][ReSettleStep =>
         IF last'.err = ""
         THEN /\ DOMAIN bets' = DOMAIN bets
              /\ \E i \in DOMAIN bets, s1 \in UIScores, s2 \in UIScores :
                    LET teams == FormTeams(bets[i].game, TxtHomeTeam, TxtAwayTeam)
                        fresh == settle_bet(NeverSettled(bets[i]),
                                            FormRecord(teams, s1, s2), now)
                    IN  /\ bets[i].settled
                        /\ fresh.err = ""
                        /\ SameSettlement(bets'[i], fresh.bet)
                        /\ NeverSettled(bets'[i]) = NeverSettled(bets[i])
                        /\ \A j \in DOMAIN bets : j # i => bets'[j] = bets[j]
         ELSE bets' = bets /\ store' = store]_vars

\* the score record with its two (label, score) entries in the other order;
\* home_team and away_team are as they were
SwapEntries(gs) == [gs EXCEPT !.scores = <<gs.scores[2], gs.scores[1]>>]

\* C12: the settlement of a wager does not depend on the position of the two
\* entries of the score record: with the entries swapped, a wager of positive
\* stake is resolved to the same outcome and the same profit.
C12_EntryOrderIrrelevant ==
    (Resolved /\ arg_bet.stake > 0 /\ arg_gs.scores_t = "list" /\ Len(arg_gs.scores) = 2) =>
        /\ settle_bet(arg_bet, SwapEntries(arg_gs), now).err = ""
        /\ settle_bet(arg_bet, SwapEntries(arg_gs), now).bet.result = out1.bet.result
        /\ settle_bet(arg_bet, SwapEntries(arg_gs), now).bet.profit = out1.bet.profit

\* the saved wager is still in the saved list after the step
Kept(w) == \E j \in DOMAIN store' : store'[j] = w

\* C13: no committed update is lost when two sessions that have loaded the
\* store interleave operations that save: placing a wager keeps every saved
\* wager, settling one changes at most one saved wager, and deleting one
\* removes only wagers with the id deleted.
C13_NoLostUpdate ==
    [][/\ last'.op = "place_bet" =>
             \A i \in DOMAIN store : Kept(store[i])
       /\ last'.op = "manual_settle" =>
             \E i \in DOMAIN store \cup {0} :
                \A k \in DOMAIN store \ {i} : Kept(store[k])
       /\ last'.op = "delete_bet" =>
             \E id \in Ids(bets) :
                \A k \in DOMAIN store : store[k].id # id => Kept(store[k])]_vars

----------------------------------------------------------------------------
(* Properties of the matcher, checked under SpecMatch *)

\* the two sides the parse rules read from a game text: the parts around
\* " vs ", else around " @ ", else the first and the last word
LabelSides(label) ==
    IF IsSubstr(SepVs, label) THEN SplitOn(label, SepVs)
    ELSE IF IsSubstr(SepAt, label) THEN SplitOn(label, SepAt)
    ELSE IF Len(SplitWords(label)) >= 2
    THEN <<SplitWords(label)[1], SplitWords(label)[Len(SplitWords(label))]>>
    ELSE <<>>

\* the parse rules yield two team tokens, neither of them empty
TwoTokens(label) ==
    /\ Len(LabelSides(label)) = 2
    /\ Strip(LabelSides(label)[1]) # <<>>
    /\ Strip(LabelSides(label)[2]) # <<>>

NotFound == out_m.called /\ out_m.err = "" /\ out_m.idx = 0

\* C14: for a game text from which the parse rules do not yield two non-empty
\* team tokens, the matcher returns NotFound, neither a record nor an
\* exception, whatever the candidates are.
C14_UnparsableIsNotFound ==
    (out_m.called /\ ~TwoTokens(arg_bet.game)) => NotFound

\* the record's two team names match the two sides under one of the two pairings
Pairing(sides, gs) ==
    \/ teams_match(Strip(sides[1]), Strip(gs.home_team))
          /\ teams_match(Strip(sides[2]), Strip(gs.away_team))
    \/ teams_match(Strip(sides[1]), Strip(gs.away_team))
          /\ teams_match(Strip(sides[2]), Strip(gs.home_team))

\* the candidates that qualify for the wager's game text: completed, or with
\* scores, and matching its two tokens
Qualifying ==
    {i \in DOMAIN arg_scores :
        /\ arg_scores[i].completed \/ arg_scores[i].scores_t = "list"
        /\ Pairing(LabelSides(arg_bet.game), arg_scores[i])}

Fuzzy(x, y) ==
    \/ Strip(Lower(x)) = Strip(Lower(y))
    \/ IsSubstr(Strip(Lower(x)), Strip(Lower(y)))
    \/ IsSubstr(Strip(Lower(y)), Strip(Lower(x)))
    \/ LongWords(Strip(Lower(x))) \cap LongWords(Strip(Lower(y))) # {}

\* the record's names are related to the two sides under one of the two pairings
Related(sides, gs) ==
    \/ Fuzzy(sides[1], gs.home_team) /\ Fuzzy(sides[2], gs.away_team)
    \/ Fuzzy(sides[1], gs.away_team) /\ Fuzzy(sides[2], gs.home_team)

\* the words in reverse order, with one blank between them
RECURSIVE ReverseWords(_)
ReverseWords(ws) ==
    IF Len(ws) <= 1 THEN (IF ws = <<>> THEN <<>> ELSE ws[1])
    ELSE ReverseWords(Tail(ws)) \o <<" ">> \o ws[1]

\* the game text with its two sides swapped
SwapLabel(label) ==
    IF IsSubstr(SepVs, label)
    THEN (IF Len(SplitOn(label, SepVs)) = 2
          THEN SplitOn(label, SepVs)[2] \o SepVs \o SplitOn(label, SepVs)[1] ELSE label)
    ELSE IF IsSubstr(SepAt, label)
    THEN (IF Len(SplitOn(label, SepAt)) = 2
          THEN SplitOn(label, SepAt)[2] \o SepAt \o SplitOn(label, SepAt)[1] ELSE label)
    ELSE ReverseWords(SplitWords(label))

\* the record with home_team and away_team swapped
SwapTeams(gs) == [gs EXCEPT !.home_team = gs.away_team, !.away_team = gs.home_team]

\* the names the matcher compares in this call
NamesInCall ==
    {arg_scores[i].home_team : i \in DOMAIN arg_scores}
    \cup {arg_scores[i].away_team : i \in DOMAIN arg_scores}
    \cup {LabelSides(arg_bet.game)[i] : i \in DOMAIN LabelSides(arg_bet.game)}

\* C16: the matcher's decision is order-insensitive and sound: the name test
\* is symmetric in its two arguments, the outcome is the same with the two
\* sides of the game text swapped and with the two team names of any candidate
\* swapped, and the candidate returned is related to the two tokens of the
\* game text under one of the two pairings.
C16_OrderInsensitiveAndSound ==
    out_m.called =>
        /\ \A x \in NamesInCall, y \in NamesInCall : teams_match(x, y) = teams_match(y, x)
        /\ Matched(find_matching_game(SwapLabel(arg_bet.game), arg_scores)) = out_m
        /\ \A k \in DOMAIN arg_scores :
              Matched(find_matching_game(arg_bet.game,
                                         [arg_scores EXCEPT ![k] = SwapTeams(@)])) = out_m
        /\ out_m.idx # 0 =>
              /\ Len(LabelSides(arg_bet.game)) = 2
              /\ Related(LabelSides(arg_bet.game), arg_scores[out_m.idx])

\* "Tulane vs Ole Miss" is matched with Ole Miss Rebels / Tulane Green Wave,
\* the second candidate, and not with the unrelated pairing before it
C16_Witness ==
    /\ out_m.called
    /\ arg_bet.game = TxtTulane \o SepVs \o TxtOleMiss
    /\ Len(arg_scores) = 2
    /\ arg_scores[1] = ListRecord(TxtOregonDucks, TxtJamesMadisonDukes, Num(1), Num(0), TRUE)
    /\ arg_scores[2] = ListRecord(TxtOleMissRebels, TxtTulaneGreenWave, Num(1), Num(0), TRUE)
    /\ out_m.idx = 2

----------------------------------------------------------------------------
(* Further properties of resolve, checked under SpecResolve *)

C18_WinProfit ==
    (Resolved /\ out1.bet.result = "W") =>
        /\ IsSpread \/ IsTotal
        /\ out1.bet.profit = arg_bet.stake

\* a Total wager won with the juice charged, at a stake where the -110 price
\* would pay another amount
C18_Witness ==
    /\ Resolved
    /\ IsTotal
    /\ ~arg_bet.no_juice
    /\ arg_bet.stake = 110
    /\ out1.bet.result = "W"
    /\ out1.bet.profit = 110

\* C19: for every resolved wager whose outcome is Push, profit_loss is 0,
\* whatever the stake and the juice flag, for Spread and Total wagers alike.
C19_PushProfit ==
    (Resolved /\ out1.bet.result = "P") =>
        /\ IsSpread \/ IsTotal
        /\ out1.bet.profit = 0

\* a Spread wager pushed with the juice charged and a stake at risk
C19_Witness ==
    /\ Resolved
    /\ IsSpread
    /\ ~arg_bet.no_juice
    /\ arg_bet.stake = 10000
    /\ out1.bet.result = "P"
    /\ out1.bet.profit = 0

\* the wager's kind, in any letter case, is neither Spread nor Over/Under
UnknownKind ==
    Lower(arg_bet.bet_type) \notin {TxtSpreadLower, TxtOverUnderLower}

\* C20: resolve raises and produces no settlement when the wager's kind is
\* neither Spread nor Total: the call ends in an error, what the caller holds
\* is the wager as it was, and no Win, Loss or Push comes of it.
C20_UnknownKindRaises ==
    (out1.called /\ UnknownKind) =>
        /\ out1.err # ""
        /\ out1.bet = arg_bet
        /\ ~out1.bet.settled
        /\ out1.bet.result \notin {"W", "L", "P"}

\* a wager of kind "ML", otherwise complete, against a record with both scores
C20_Witness ==
    /\ out1.called
    /\ arg_bet.bet_type = <<"M", "L">>
    /\ arg_bet.stake = 100
    /\ NumericList
    /\ out1.err = "ValueError"

\* the selection of a Total wager is not exactly 'Over' or 'Under'
UnknownSelection == arg_bet.direction \notin {Some(TxtOver), Some(TxtUnder)}

\* C21: for a Total wager whose selection is not exactly Over or Under,
\* resolve raises and produces no settlement; it never falls through to the
\* initial outcome 'P' of settleBet.
C21_UnknownSelectionRaises ==
    (out1.called /\ IsTotal /\ UnknownSelection) =>
        /\ out1.err # ""
        /\ out1.bet = arg_bet
        /\ ~out1.bet.settled
        /\ out1.bet.result \notin {"W", "L", "P"}

\* a Total wager on 'over', complete otherwise, against a record with both
\* scores: the call reaches settleBet and line 141 raises
C21_Witness ==
    /\ out1.called
    /\ IsTotal
    /\ arg_bet.direction = Some(Lower(TxtOver))
    /\ arg_bet.total # None
    /\ arg_bet.stake > 0
    /\ NumericList
    /\ out1.err = "ValueError"

\* C22: for every settled wager, payout equals the stake when the outcome is
\* Win or Push and 0 when it is Loss, for Spread and Total wagers alike.
C22_PayoutRule ==
    Resolved =>
        /\ IsSpread \/ IsTotal
        /\ out1.bet.result \in {"W", "L", "P"}
        /\ out1.bet.payout = IF out1.bet.result \in {"W", "P"} THEN arg_bet.stake ELSE 0

\* a Total wager pushed: the stake comes back
C22_Witness ==
    /\ Resolved
    /\ IsTotal
    /\ arg_bet.stake = 10000
    /\ out1.bet.result = "P"
    /\ out1.bet.payout = 10000

----------------------------------------------------------------------------
(* Further properties of the tracker, checked under Spec *)

\* the juice table, rounded half-up to the cent: +stake for W, 0 for P, -stake
\* for L with the juice waived, -(stake * 1.1) for L otherwise
JuiceTable(w) == QuantizeHalfUp(JuicePL(w.result, w.stake, w.no_juice))

\* C23: in every reachable state of the bet list, the profit of every settled
\* wager is exactly the juice-table value of its own (result, stake,
\* no_juice); profit is never changed independently of these three.
C23_ProfitFromJuiceTable ==
    \A i \in DOMAIN bets : bets[i].settled => bets[i].profit = JuiceTable(bets[i])

\* the step is one run of Auto-Settle Bets
AutoSettleStep == last'.op = "auto_settle" /\ now' = now + 1

\* the Matcher returns NotFound for the wager against the feed
MatcherNotFound(bet, scores) ==
    /\ find_matching_game(bet.game, scores).err = ""
    /\ find_matching_game(bet.game, scores).idx = 0

\* y is what one call of settle_bet makes of x against some record of the feed
ResolvedOnce(x, y, scores, t) ==
    \E k \in DOMAIN scores :
        /\ settle_bet(x, scores[k], t).err = ""
        /\ y = settle_bet(x, scores[k], t).bet

\* C24: auto_settle_bets processes each wager at most once per batch and
\* preserves the rest: the list after the batch has the same length and the
\* same wagers in the same order, every wager already settled and every wager
\* for which the Matcher returns NotFound is identical to what it was, and any
\* other wager is either as it was or the outcome of one call of settle_bet.
C24_BatchPreserves ==
    [][AutoSettleStep =>
         /\ Len(bets') = Len(bets)
         /\ \A i \in DOMAIN bets :
               /\ NeverSettled(bets'[i]) = NeverSettled(bets[i])
               /\ bets[i].settled => bets'[i] = bets[i]
               /\ MatcherNotFound(bets[i], last'.feed) => bets'[i] = bets[i]
               /\ \/ bets'[i] = bets[i]
                  \/ ResolvedOnce(bets[i], bets'[i], last'.feed, now)]_vars

\* a batch has just settled one wager of the list and left the other one, for
\* which the feed has no matching record, unsettled
C24_Witness ==
    /\ last.op = "auto_settle"
    /\ last.err = ""
    /\ Len(bets) = 2
    /\ \E i \in DOMAIN bets, j \in DOMAIN bets :
          /\ bets[i].settled
          /\ bets[i].settled_at = Some(now - 1)
          /\ ~bets[j].settled
          /\ MatcherNotFound(bets[j], last.feed)

\* the wager's game label fuzzy-matches a record of the feed that is completed
MatchesCompleted(bet, scores) ==
    /\ ParseGame(bet.game).err = ""
    /\ ParseGame(bet.game).found
    /\ \E k \in DOMAIN scores :
          /\ scores[k].completed
          /\ RecordMatches(normalize_team_name(ParseGame(bet.game).home),
                           normalize_team_name(ParseGame(bet.game).away), scores[k])

\* C25: auto_settle_bets settles all unsettled bets that have completed games:
\* once a batch has returned, no wager of the list whose game label matches a
\* completed record of the feed is left unsettled, whatever other records
\* (such as an earlier record of a game being played) the feed holds.
C25_AllCompletedSettled ==
    (last.op = "auto_settle" /\ last.err = "") =>
        \A i \in DOMAIN bets :
            MatchesCompleted(bets[i], last.feed) => bets[i].settled

\* the fields of one wager agree with its settled flag
Lifecycle(w) ==
    /\ w.settled <=> (/\ w.result \in {"W", "L", "P"}
                      /\ w.settled_at # None
                      /\ w.final_score # None)
    /\ ~w.settled => (w.result = "None" /\ w.profit = 0 /\ w.payout = 0)

\* no step takes a settled wager of the list back to unsettled: a deletion
\* leaves only wagers that are as they were, any other step leaves every
\* settled wager in its place and settled
StaysSettled ==
    IF last'.op = "delete_bet"
    THEN \A j \in DOMAIN bets' : \E i \in DOMAIN bets : bets'[j] = bets[i]
    ELSE \A i \in DOMAIN bets :
            bets[i].settled => (i \in DOMAIN bets' /\ bets'[i].settled)

\* C26: lifecycle of the bet list: in every reachable state a wager has
\* settled = true if and only if its result is one of W, L, P and its
\* settled_at and final_score are set, a wager with settled = false has result
\* None, profit 0 and payout 0, and no step takes a wager from settled back to
\* unsettled.
C26_Lifecycle ==
    /\ [](\A i \in DOMAIN bets : Lifecycle(bets[i]))
    /\ [][StaysSettled]_vars

\* a settled wager has just been settled again, next to a pending one
C26_Witness ==
    /\ last.op = "re_settle"
    /\ last.err = ""
    /\ \E i \in DOMAIN bets, j \in DOMAIN bets :
          /\ bets[i].settled
          /\ bets[i].settled_at = Some(now - 1)
          /\ ~bets[j].settled

\* the step is one run of the manual settlement or of the re-settlement form
SettleFormStep == last'.op \in {"manual_settle", "re_settle"} /\ now' = now + 1

\* the wager at position i is one the form of this step offers for selection
Selectable(i) ==
    IF last'.op = "manual_settle" THEN ~bets[i].settled ELSE bets[i].settled

\* C27: manual settlement and re-settlement change exactly the wager the user
\* selected: after a run that raises nothing the selected wager holds the new
\* settlement, every other wager of the list is as it was, and the list has the
\* same length and order; a run that raises leaves the list as it was.
C27_OnlySelectedChanges ==
    [][SettleFormStep =>
         IF last'.err = ""
         THEN /\ Len(bets') = Len(bets)
              /\ \E i \in DOMAIN bets :
                    /\ Selectable(i)
                    /\ bets'[i].settled
                    /\ bets'[i].settled_at = Some(now)
                    /\ NeverSettled(bets'[i]) = NeverSettled(bets[i])
                    /\ \A j \in DOMAIN bets : j # i => bets'[j] = bets[j]
         ELSE bets' = bets]_vars

\* the list a new session obtains from the store
Reloaded == initialize_data(store)

\* C28: the persisted store stays equal to the session's bet list: after every
\* operation that changes the list and calls save_bets (place, settle,
\* re-settle, delete), a new session that loads the store obtains exactly that
\* list; in particular a deleted wager does not reappear after a reload.
C28_StoreEqualsList ==
    (/\ last.op \in {"place_bet", "manual_settle", "re_settle", "delete_bet"}
     /\ last.err = "") => Reloaded = bets

\* the wager on the other side of the same game: the away team at the negated line
OtherSide ==
    [arg_bet EXCEPT !.team = Some(arg_gs.away_team), !.spread = Some(-arg_bet.spread[1])]

\* the two outcomes are opposite: a Win for one is a Loss for the other, and
\* both are Push together
Opposite(r1, r2) ==
    /\ r1 = "W" <=> r2 = "L"
    /\ r1 = "L" <=> r2 = "W"
    /\ r1 = "P" <=> r2 = "P"

\* the wager resolved backs the home team of the record by its name
BacksHome ==
    /\ Resolved
    /\ IsSpread
    /\ NumericList
    /\ arg_bet.team = Some(arg_gs.home_team)
    /\ NormalizeName(arg_gs.home_team) # NormalizeName(arg_gs.away_team)

\* C29: Spread resolution is antisymmetric between the two sides of one game:
\* for every score record and line L, backing the home team at L and backing
\* the away team at -L yield opposite outcomes, and both are Push in exactly
\* the same cases.
C29_SpreadAntisymmetric ==
    BacksHome =>
        /\ settle_bet(OtherSide, arg_gs, now).err = ""
        /\ Opposite(out1.bet.result, settle_bet(OtherSide, arg_gs, now).bet.result)

\* the home team backed at -0.5 wins 1-0, and the away team at +0.5 loses
C29_Witness ==
    /\ BacksHome
    /\ arg_bet.spread = Some(-1)
    /\ HomePoints = 1 /\ AwayPoints = 0
    /\ out1.bet.result = "W"
    /\ settle_bet(OtherSide, arg_gs, now).bet.result = "L"

\* the core settleBet called with bet_type 'spread' on the scores, pick, line,
\* stake and flag of the wager resolved
CoreSpread ==
    settleBet(arg_gs.scores[1], arg_gs.scores[2], "spread", arg_bet.team, arg_bet.spread,
              arg_bet.stake, arg_bet.no_juice)

\* C30: the two Spread implementations agree on the outcome: for every score
\* pair, team pick, line and positive stake, the result the wrapper settle_bet
\* computes equals the result of the core settleBet called with bet_type
\* 'spread' on the same scores, pick and line.
C30_WrapperAgreesWithCore ==
    (Resolved /\ IsSpread /\ NumericList /\ arg_bet.stake > 0) =>
        /\ CoreSpread.err = ""
        /\ CoreSpread.result = out1.bet.result

====
